---- MODULE Spec2Model ----
(***************************************************************************)
(* Error capture and reporting subsystem of VoiceJournal.                  *)
(*                                                                         *)
(* Native side: CrashHandler (crash_logs, bound 10) and the MainActivity   *)
(* uncaught-exception lambda (native_error_logs, bound 20), chained        *)
(* through Thread.setDefaultUncaughtExceptionHandler.                      *)
(*                                                                         *)
(* Managed side: ErrorHandler (global handler, rejection tracker and       *)
(* console.error wrappers, logError) and ErrorBoundary, both writing the   *)
(* AsyncStorage item @voice_journal_error_logs (bound 50).                 *)
(*                                                                         *)
(* Texts are sequences of tokens: joining and prefixing concatenate them,  *)
(* String.includes looks for a token.                                      *)
(***************************************************************************)
EXTENDS Naturals, Sequences, FiniteSets

VARIABLES
    store,             \* AsyncStorage item @voice_journal_error_logs, parsed: newest first
    installs,          \* how many times setupGlobalErrorHandling has wrapped the channels
    priorHandler,      \* ErrorUtils.getGlobalHandler() returned a handler at the first installation
    isDev,             \* global.__DEV__
    tasks,             \* logError invocations suspended at an await
    jsClock,           \* Date.now() / Math.random(): source of unique record ids
    logCalls,          \* ErrorHandler.logError invocations so far
    rejections,        \* rejected logError promises not yet reported to the rejection tracker
    faults,            \* faults raised by the environment so far
    storageFailures,   \* AsyncStorage failures so far
    fault,             \* the latest fault raised by the environment
    last,              \* what the latest step did on the spot: the calls it made, in order
    inserted,          \* ids of the records whose setItem completed since the last clear
    bState,            \* ErrorBoundary.state of each boundary
    mounted,           \* whether each boundary is mounted
    customFallback,    \* props.fallback is supplied
    faultIn,           \* the error that rendering each subtree throws (NullError: none)
    renders,           \* what each boundary's render returned during the latest step, in order
    uncaughtHandler,   \* Thread.getDefaultUncaughtExceptionHandler(): the chain of handlers, current first
    INSTANCE_,         \* CrashHandler.INSTANCE # null
    crashLogs,         \* SharedPreferences voice_journal_crashes / crash_logs
    nativeErrorLogs,   \* SharedPreferences VoiceJournalPrefs / native_error_logs
    nativeClock,       \* System.currentTimeMillis(): it advances with every fault raised
    activities,        \* MainActivity.onCreate calls so far
    crashes,           \* uncaught native exceptions raised so far
    npc,               \* "idle" | "handling" | "dead": position of the uncaught-exception dispatch
    nPos,              \* index in uncaughtHandler of the handler now running
    nThread,           \* thread.name of the exception being dispatched
    nThrowable,        \* throwable.message of the exception being dispatched (Null when absent)
    nTrace,            \* what the dispatch did so far, in order
    crashHistory,      \* every record saveCrashLog persisted since the last clearCrashLogs, oldest first
    errors,            \* ErrorReportScreen state: the managed records it read
    nativeErrors,      \* ErrorReportScreen state: the native records it read
    isLoading,         \* ErrorReportScreen state
    sPc,               \* "closed" or where the screen's handlers are suspended
    alerts,            \* Alert.alert calls of the screen's latest step, in order
    outcome,           \* how the screen's latest reads and clears ended: "none" | "ok" | "failed"
    rendered,          \* what the screen's latest render returned
    bridgeResult,      \* the settled promise of the latest managed-side call across the bridge
    tPc,               \* where each native thread stands in CrashHandler.getInstance
    tLocal,            \* each thread's locals: the bridge method it serves, the instance it holds
    lockHolder,        \* the thread inside synchronized(CrashHandler.Companion), 0 when none
    instances,         \* the CrashHandler objects constructed, with the defaultHandler each captured
    published          \* which of them INSTANCE refers to (0: null)

nativeVars == <<uncaughtHandler, INSTANCE_, crashLogs, nativeErrorLogs, nativeClock,
                activities, crashes, npc, nPos, nThread, nThrowable, nTrace,
                crashHistory>>

managedVars == <<store, installs, priorHandler, isDev, tasks, jsClock, logCalls, rejections,
                 faults, storageFailures, fault, last, inserted>>

boundaryVars == <<bState, mounted, customFallback, faultIn, renders>>

screenVars == <<errors, nativeErrors, isLoading, sPc, alerts, outcome, rendered, bridgeResult>>

threadVars == <<tPc, tLocal, lockHolder, instances, published>>

vars == <<nativeVars, managedVars, boundaryVars, screenVars, threadVars>>

(* ------------------------------ bounds -------------------------------- *)

MaxActivities == 2
MaxCrashes == 2

(* ----------------------------- constants ------------------------------ *)

MAX_CRASH_LOGS == 10
MAX_NATIVE_ERROR_LOGS == 20

Null == "<null>"

\* <<thread.name, throwable.message>> of the exceptions raised
NativeFaults == {<<"worker-1", "null pointer">>, <<"main", Null>>}
NativeFaultsOne == {<<"worker-1", "null pointer">>}

(* ------------------------------ helpers ------------------------------- *)

Min(a, b) == IF a < b THEN a ELSE b

Max(a, b) == IF a > b THEN a ELSE b

Take(s, n) == SubSeq(s, 1, Min(n, Len(s)))

Reverse(s) == [i \in 1..Len(s) |-> s[Len(s) + 1 - i]]

(* --------------------------- CrashHandler ----------------------------- *)

\* throwable.message ?: "Unknown crash"
CrashMessage(m) == IF m = Null THEN "Unknown crash" ELSE m

\* id is crash_<millis>_<uuid>: unique; the time stands for it
CrashLogRecord(now, thread, m) ==
    [id |-> now, timestamp |-> now, type |-> "native", thread |-> thread, context |-> Null,
     message |-> CrashMessage(m)]

\* Mutant: the new record is appended and the oldest kept.
saveCrashLogAppend(logs, rec) ==
    Take(logs, MAX_CRASH_LOGS - 1) \o <<rec>>

\* newLogs = [crashLog] followed by the first min(len, MAX_CRASH_LOGS - 1) existing logs
saveCrashLog(logs, rec) ==
    <<rec>> \o Take(logs, Min(Len(logs), MAX_CRASH_LOGS - 1))

\* Mutant: the default handler is called only when the crash log was saved.
ChainsToDefaultOnlyOnSuccess(saved) == saved

\* finally { defaultHandler?.uncaughtException(thread, throwable) }
ChainsToDefault(saved) == TRUE

(* --------------------------- MainActivity ----------------------------- *)

\* error.message ?: "Unknown error"
NativeErrorMessage(m) == IF m = Null THEN "Unknown error" ELSE m

NativeErrorRecord(now, context, m) ==
    [id |-> Null, timestamp |-> now, type |-> "native", thread |-> Null, context |-> context,
     message |-> NativeErrorMessage(m)]

\* Mutant: the first 20 records are kept.
logNativeErrorKeepsOldest(logs, rec) == Take(logs \o <<rec>>, MAX_NATIVE_ERROR_LOGS)

\* newLogsArray.put(errorLog); keep only the last 20
logNativeError(logs, rec) ==
    LET all == logs \o <<rec>>
        startIndex == Max(0, Len(all) - MAX_NATIVE_ERROR_LOGS)
    IN SubSeq(all, startIndex + 1, Len(all))

(* ------------------------------ events -------------------------------- *)

Enter(pos, thread, m) == [ev |-> "enter", pos |-> pos, thread |-> thread, throwable |-> m, ok |-> TRUE]

Persist(pos, thread, m, ok) == [ev |-> "persist", pos |-> pos, thread |-> thread, throwable |-> m, ok |-> ok]

(* ------------------------------- Init --------------------------------- *)

NativeInit ==
    /\ uncaughtHandler = <<"platform">>
    /\ INSTANCE_ = FALSE
    /\ crashLogs = <<>>
    /\ nativeErrorLogs = <<>>
    /\ nativeClock = 1
    /\ activities = 0
    /\ crashes = 0
    /\ npc = "idle"
    /\ nPos = 0
    /\ nThread = Null
    /\ nThrowable = Null
    /\ nTrace = <<>>
    /\ crashHistory = <<>>

(* ------------------------------ actions ------------------------------- *)

\* MainActivity.onCreate: when super.onCreate throws, the fault is logged and the
\* process goes on; otherwise setupNativeErrorHandling wraps the current default
\* handler in a new lambda.
ActivityOnCreate ==
    /\ UNCHANGED <<managedVars, boundaryVars, threadVars, screenVars>>
    /\ npc = "idle"
    /\ activities < MaxActivities
    /\ activities' = activities + 1
    /\ \E initThrows \in BOOLEAN, saved \in BOOLEAN :
         IF initThrows
         THEN /\ nativeErrorLogs' =
                   IF saved
                   THEN logNativeError(nativeErrorLogs,
                            NativeErrorRecord(nativeClock, "MainActivity.onCreate", "init failed"))
                   ELSE nativeErrorLogs
              /\ nativeClock' = nativeClock + 1
              /\ UNCHANGED uncaughtHandler
         ELSE /\ uncaughtHandler' = <<"activity">> \o uncaughtHandler
              /\ UNCHANGED <<nativeErrorLogs, nativeClock>>
    /\ UNCHANGED <<INSTANCE_, crashLogs, crashes, npc, nPos, nThread, nThrowable, nTrace, crashHistory>>

\* CrashHandler.getInstance: the first access constructs the handler, whose init
\* reads the current default handler and installs itself.
getInstance ==
    /\ UNCHANGED <<managedVars, boundaryVars, threadVars, screenVars>>
    /\ npc = "idle"
    /\ IF INSTANCE_
       THEN UNCHANGED <<INSTANCE_, uncaughtHandler>>
       ELSE /\ INSTANCE_' = TRUE
            /\ uncaughtHandler' = <<"crash">> \o uncaughtHandler
    /\ UNCHANGED <<crashLogs, nativeErrorLogs, nativeClock, activities, crashes, npc, nPos,
                   nThread, nThrowable, nTrace, crashHistory>>

\* CrashReportModule.clearNativeCrashLogs: getInstance, then clearCrashLogs.
clearCrashLogs ==
    /\ UNCHANGED <<managedVars, boundaryVars, threadVars, screenVars>>
    /\ npc = "idle"
    /\ IF INSTANCE_
       THEN UNCHANGED <<INSTANCE_, uncaughtHandler>>
       ELSE /\ INSTANCE_' = TRUE
            /\ uncaughtHandler' = <<"crash">> \o uncaughtHandler
    /\ crashLogs' = <<>>
    /\ crashHistory' = <<>>
    /\ UNCHANGED <<nativeErrorLogs, nativeClock, activities, crashes, npc, nPos,
                   nThread, nThrowable, nTrace>>

\* An exception escapes a thread: the runtime calls the current default handler.
UncaughtException(limit, raised) ==
    /\ UNCHANGED <<managedVars, boundaryVars, threadVars, screenVars>>
    /\ npc = "idle"
    /\ crashes < limit
    /\ crashes' = crashes + 1
    /\ nativeClock' = nativeClock + 1
    /\ \E f \in raised :
         /\ nThread' = f[1]
         /\ nThrowable' = f[2]
         /\ nTrace' = <<Enter(1, f[1], f[2])>>
    /\ nPos' = 1
    /\ npc' = IF uncaughtHandler[1] = "platform" THEN "dead" ELSE "handling"
    /\ UNCHANGED <<uncaughtHandler, INSTANCE_, crashLogs, nativeErrorLogs,
                   activities, crashHistory>>

\* What a handler does after its persistence attempt: call the handler it captured
\* at installation, or return without calling it.
AfterPersist(saved, chained) ==
    IF chained
    THEN /\ nTrace' = nTrace \o <<Persist(nPos, nThread, nThrowable, saved),
                                  Enter(nPos + 1, nThread, nThrowable)>>
         /\ nPos' = nPos + 1
         /\ npc' = IF uncaughtHandler[nPos + 1] = "platform" THEN "dead" ELSE "handling"
    ELSE /\ nTrace' = nTrace \o <<Persist(nPos, nThread, nThrowable, saved)>>
         /\ nPos' = nPos
         /\ npc' = "idle"

\* CrashHandler.uncaughtException: saveCrashLog (its failure is caught and logged),
\* then the default handler captured by the constructor.
uncaughtException ==
    /\ UNCHANGED <<managedVars, boundaryVars, threadVars, screenVars>>
    /\ npc = "handling"
    /\ uncaughtHandler[nPos] = "crash"
    /\ \E saved \in BOOLEAN :
         /\ IF saved
            THEN LET rec == CrashLogRecord(nativeClock, nThread, nThrowable)
                 IN /\ crashLogs' = saveCrashLog(crashLogs, rec)
                    /\ crashHistory' = crashHistory \o <<rec>>
            ELSE UNCHANGED <<crashLogs, crashHistory>>
         /\ AfterPersist(saved, ChainsToDefault(saved))
    /\ UNCHANGED <<uncaughtHandler, INSTANCE_, nativeErrorLogs, nativeClock, activities,
                   crashes, nThread, nThrowable>>

\* The lambda of MainActivity.setupNativeErrorHandling: logNativeError (its failure
\* is caught and logged), a toast posted to the UI thread, then the captured handler.
activityUncaughtException ==
    /\ UNCHANGED <<managedVars, boundaryVars, threadVars, screenVars>>
    /\ npc = "handling"
    /\ uncaughtHandler[nPos] = "activity"
    /\ \E saved \in BOOLEAN :
         /\ IF saved
            THEN /\ nativeErrorLogs' =
                      logNativeError(nativeErrorLogs,
                          NativeErrorRecord(nativeClock, "UncaughtException", nThrowable))
            ELSE UNCHANGED nativeErrorLogs
         /\ AfterPersist(saved, TRUE)
    /\ UNCHANGED <<uncaughtHandler, INSTANCE_, crashLogs, crashHistory, nativeClock,
                   activities, crashes, nThread, nThrowable>>

\* The platform's handler has killed the process; the next launch starts with the
\* platform handler alone and the persisted stores as they were.
ProcessRestart ==
    /\ UNCHANGED <<managedVars, boundaryVars, threadVars, screenVars>>
    /\ npc = "dead"
    /\ npc' = "idle"
    /\ uncaughtHandler' = <<"platform">>
    /\ INSTANCE_' = FALSE
    /\ nPos' = 0
    /\ nTrace' = <<>>
    /\ UNCHANGED <<crashLogs, nativeErrorLogs, nativeClock, activities, crashes, nThread,
                   nThrowable, crashHistory>>

NativeNext ==
    \/ ActivityOnCreate
    \/ getInstance
    \/ clearCrashLogs
    \/ UncaughtException(MaxCrashes, NativeFaults)
    \/ uncaughtException
    \/ activityUncaughtException
    \/ ProcessRestart

\* The crash store alone, filled past its bound by one kind of fault.
CrashStoreNext ==
    \/ getInstance
    \/ clearCrashLogs
    \/ UncaughtException(MAX_CRASH_LOGS + MaxCrashes, NativeFaultsOne)
    \/ uncaughtException
    \/ ProcessRestart

(* ====================================================================== *)
(*                             Managed side                               *)
(* ====================================================================== *)

(* ------------------------------ bounds -------------------------------- *)

MaxInstalls == 2
MaxFaults == 1
MaxCalls == 4
MaxStorageFailures == 1
\* Call frames the engine allows before it throws RangeError
StackLimit == 4
\* Insertions past MAX_ERROR_LOGS that the store-filling specification makes
MaxExtra == 2
\* Records a native store holds from earlier processes, at most
MaxHeld == 1
\* NativeErrorModule.logNativeError calls from managed code
MaxBridgeLogs == 2
\* Records each store holds when the report screen opens, at most
MaxList == 2
\* Capture instants of those records: 1..MaxTime
MaxTime == 3
\* Dialogs the report screen has shown before "Clear All" is no longer pressed
MaxAlerts == 3

(* ----------------------------- constants ------------------------------ *)

MAX_ERROR_LOGS == 50

(* ------------------------------- texts -------------------------------- *)

\* message.includes('Warning:') || message.includes('[GESTURE HANDLER]')
Benign(text) == \E i \in 1..Len(text) : text[i] \in {"Warning:", "[GESTURE HANDLER]"}

\* console.error('Error logged:', errorLog), joined
ErrorLoggedText == <<"Error logged:", "[object Object]">>

\* console.error('ErrorBoundary caught an error:', errorLog), joined
BoundaryCaughtText == <<"ErrorBoundary caught an error:", "[object Object]">>

\* console.error('Failed to log error to storage:', storageError), joined
FailedToLogText(e) == <<"Failed to log error to storage:", e>>

\* console.error('Error getting error logs:', error), joined
GetLogsFailedText(e) == <<"Error getting error logs:", e>>

\* console.error('Error clearing error logs:', error), joined
ClearFailedText(e) == <<"Error clearing error logs:", e>>

\* The text JSON.stringify and toISOString give for the instant n
Iso(n) == [iso |-> n]

\* The decimal text of the number n
Millis(n) == [ms |-> n]

\* x || fallback, for a text x
OrElse(text, fallback) == IF text = <<>> THEN fallback ELSE text

(* --------------------------- error values ----------------------------- *)

\* null or undefined passed where an Error is expected
NullError == [nul |-> TRUE, message |-> <<>>, stack |-> Null]

NetworkDown == [nul |-> FALSE, message |-> <<"network down">>, stack |-> "stack"]

\* an object without message and stack
Bare == [nul |-> FALSE, message |-> <<>>, stack |-> Null]

RangeError == [nul |-> FALSE, message |-> <<"Maximum call stack size exceeded">>, stack |-> "stack"]

Errors == {NetworkDown, Bare, NullError}

ConsoleTexts == {<<"Warning:", "componentWillMount is deprecated">>,
                 <<"[GESTURE HANDLER]", "not attached">>,
                 <<"disk full">>}

(* ------------------------------ effects ------------------------------- *)
(* What a synchronous run of managed code did: the logError invocations   *)
(* (called), those that reached their first await (started), the texts    *)
(* printed by the original console.error (raw), the invocations of the    *)
(* handler registered before the first installation (prior), the logError *)
(* promises rejected, and whether an exception left the run.              *)

NoEffect == [called |-> <<>>, started |-> <<>>, raw |-> <<>>, prior |-> <<>>,
             rejected |-> 0, thrown |-> FALSE]

Throws == [NoEffect EXCEPT !.thrown = TRUE]

Then(a, b) == [called |-> a.called \o b.called, started |-> a.started \o b.started,
               raw |-> a.raw \o b.raw, prior |-> a.prior \o b.prior,
               rejected |-> a.rejected + b.rejected, thrown |-> b.thrown]

Info(type, message, stack, componentStack) ==
    [type |-> type, message |-> message, stack |-> stack, componentStack |-> componentStack]

(* ---------------------- console.error and logError -------------------- *)

RECURSIVE ConsoleErrorAt(_, _, _, _), LogErrorAt(_, _, _)

\* Mutant: the wrapper logs every text, the benign ones too.
ConsoleErrorLogsAll(n, k, text, d) ==
    IF k = 0 THEN [NoEffect EXCEPT !.raw = <<text>>]
    ELSE IF d >= StackLimit THEN Throws
    ELSE LET logged == LogErrorAt(n, Info("javascript", <<"Console Error:">> \o text, Null, Null), d + 1)
         IN Then(logged, ConsoleErrorAt(n, k - 1, text, d + 1))

\* console.error as wrapped k times (k = 0: the original channel), called with d
\* frames in use while n wrappers are installed.
ConsoleErrorAt(n, k, text, d) ==
    IF k = 0 THEN [NoEffect EXCEPT !.raw = <<text>>]
    ELSE IF d >= StackLimit THEN Throws
    ELSE IF Benign(text) THEN ConsoleErrorAt(n, k - 1, text, d + 1)
    ELSE LET logged == LogErrorAt(n, Info("javascript", <<"Console Error:">> \o text, Null, Null), d + 1)
         IN Then(logged, ConsoleErrorAt(n, k - 1, text, d + 1))

\* ErrorHandler.logError up to its first await. It is async: an exception in its
\* body rejects the promise it returns and never reaches the caller.
LogErrorAt(n, info, d) ==
    LET me == [NoEffect EXCEPT !.called = <<info>>]
    IN IF d >= StackLimit THEN [me EXCEPT !.rejected = 1]
       ELSE LET c == ConsoleErrorAt(n, n, ErrorLoggedText, d + 1)
            IN IF ~c.thrown
               THEN [Then(me, c) EXCEPT !.started = c.started \o <<info>>]
               ELSE LET c2 == ConsoleErrorAt(n, n, FailedToLogText("RangeError"), d + 1)
                        all == Then(me, Then([c EXCEPT !.thrown = FALSE], c2))
                    IN [all EXCEPT !.rejected = all.rejected + (IF c2.thrown THEN 1 ELSE 0),
                                   !.thrown = FALSE]

\* The errorLog built by ErrorHandler.logError
ErrorLog(id, info) ==
    [id |-> id,
     timestamp |-> Iso(id),
     type |-> IF info.type = Null THEN "javascript" ELSE info.type,
     message |-> OrElse(info.message, <<"Unknown error">>),
     stack |-> info.stack,
     componentStack |-> info.componentStack]

\* The errorLog built by ErrorBoundary.logError
BoundaryLog(id, err, componentStack) ==
    [id |-> id,
     timestamp |-> Iso(id),
     type |-> "component",
     message |-> OrElse(err.message, <<"Component error">>),
     stack |-> IF err.stack = Null THEN "No stack trace" ELSE err.stack,
     componentStack |-> IF componentStack = Null THEN "No component stack" ELSE componentStack]

\* [errorLog, ...existingLogs].slice(0, 50)
UpdatedLogs(log, existing) == Take(<<log>> \o existing, MAX_ERROR_LOGS)

(* ------------------------- the global handlers ------------------------ *)

\* showFatalErrorDialog / showNonFatalErrorToast read error.message
DialogThrows(err, fatal) == IF fatal THEN err.nul ELSE (isDev /\ err.nul)

RECURSIVE HandlerAt(_, _, _, _, _)

\* The global handler as wrapped k times (k = 0: the handler found at the first
\* installation, if any).
HandlerAt(n, k, err, fatal, d) ==
    IF k = 0 THEN (IF priorHandler THEN [NoEffect EXCEPT !.prior = <<<<err, fatal>>>>] ELSE NoEffect)
    ELSE IF d >= StackLimit THEN Throws
    ELSE LET logged == LogErrorAt(n, Info("javascript",
                           OrElse(err.message, <<"Unknown JavaScript error">>), err.stack, Null), d + 1)
         IN IF DialogThrows(err, fatal)
            THEN [logged EXCEPT !.thrown = TRUE]
            ELSE Then(logged, HandlerAt(n, k - 1, err, fatal, d + 1))

\* onUnhandled of the rejection tracker: error.message is read first
OnUnhandled(n, err) ==
    IF err.nul THEN Throws
    ELSE LogErrorAt(n, Info("promise",
             <<"Unhandled Promise Rejection:">> \o OrElse(err.message, <<"Unknown error">>),
             err.stack, Null), 1)

\* ErrorHandler.reportError: error.message is read first
ReportErrorEffect(n, err, componentStack) ==
    IF err.nul THEN Throws
    ELSE LogErrorAt(n, Info("component", OrElse(err.message, <<"Component error">>),
                            err.stack, componentStack), 1)

(* ------------------------------- Init --------------------------------- *)

NoFault == [kind |-> "none", err |-> NullError, fatal |-> FALSE, text |-> <<>>]

Step(kind, ok, eff) == [kind |-> kind, ok |-> ok, eff |-> eff]

\* The store survives the process: held records of earlier sessions are in it when
\* the application starts. App installs the global handlers while its module loads
\* and again whenever it mounts: insts are the numbers of installations done so far.
ManagedInit(devs, priors, held, insts) ==
    /\ store = [i \in 1..held |-> ErrorLog(held + 1 - i, Info("javascript", <<"earlier session">>, Null, Null))]
    /\ installs \in insts
    /\ priorHandler \in priors
    /\ isDev \in devs
    /\ tasks = {}
    /\ jsClock = held + 1
    /\ logCalls = 0
    /\ rejections = 0
    /\ faults = 0
    /\ storageFailures = 0
    /\ fault = NoFault
    /\ last = Step("init", TRUE, NoEffect)
    /\ inserted = 1..held

(* ------------------------------ actions ------------------------------- *)

\* The logError invocations of eff that reached their await become tasks.
NewTasks(eff) ==
    {[kind |-> "handler", log |-> ErrorLog(jsClock + i - 1, eff.started[i]),
      pc |-> "read", updatedLogs |-> <<>>] : i \in 1..Len(eff.started)}

\* Book-keeping common to every managed step.
Apply(kind, ok, eff, more) ==
    /\ tasks' = (tasks \ more.done) \cup NewTasks(eff) \cup more.new
    /\ jsClock' = jsClock + Len(eff.started) + more.ids
    /\ logCalls' = logCalls + Len(eff.called)
    /\ rejections' = (rejections - more.delivered) + eff.rejected
    /\ last' = Step(kind, ok, eff)

Nothing == [done |-> {}, new |-> {}, ids |-> 0, delivered |-> 0]

\* ErrorHandler.setupGlobalErrorHandling: no guard against a second call; every call
\* wraps the current global handler and the current console.error once more.
setupGlobalErrorHandling ==
    /\ installs < MaxInstalls
    /\ installs' = installs + 1
    /\ Apply("setup", TRUE, NoEffect, Nothing)
    /\ UNCHANGED <<store, priorHandler, isDev, faults, storageFailures, fault, inserted>>
    /\ UNCHANGED <<nativeVars, boundaryVars, threadVars, screenVars>>

\* The runtime reports an uncaught JavaScript error to the current global handler.
GlobalFault(limit, errs) ==
    /\ faults < limit
    /\ logCalls < MaxCalls
    /\ \E err \in errs, fatal \in BOOLEAN :
         /\ fault' = [kind |-> "uncaught", err |-> err, fatal |-> fatal, text |-> <<>>]
         /\ Apply("uncaught", TRUE, HandlerAt(installs, installs, err, fatal, 0), Nothing)
    /\ faults' = faults + 1
    /\ UNCHANGED <<store, installs, priorHandler, isDev, storageFailures, inserted>>
    /\ UNCHANGED <<nativeVars, boundaryVars, threadVars, screenVars>>

\* A promise is rejected and nobody handles it: the tracker enabled by the
\* installation calls onUnhandled.
UnhandledRejection(limit, errs) ==
    /\ installs >= 1
    /\ faults < limit
    /\ logCalls < MaxCalls
    /\ \E err \in errs :
         /\ fault' = [kind |-> "rejection", err |-> err, fatal |-> FALSE, text |-> <<>>]
         /\ Apply("rejection", TRUE, OnUnhandled(installs, err), Nothing)
    /\ faults' = faults + 1
    /\ UNCHANGED <<store, installs, priorHandler, isDev, storageFailures, inserted>>
    /\ UNCHANGED <<nativeVars, boundaryVars, threadVars, screenVars>>

\* A logError promise was rejected (the call stack overflowed) and nobody awaits
\* it: the tracker reports it like any other rejection.
RejectedLogError ==
    /\ installs >= 1
    /\ rejections > 0
    /\ logCalls < MaxCalls
    /\ Apply("rejected-logError", TRUE, OnUnhandled(installs, RangeError),
             [Nothing EXCEPT !.delivered = 1])
    /\ UNCHANGED <<store, installs, priorHandler, isDev, faults, storageFailures, fault, inserted>>
    /\ UNCHANGED <<nativeVars, boundaryVars, threadVars, screenVars>>

\* Application or library code calls console.error.
ConsoleError(limit, texts) ==
    /\ faults < limit
    /\ logCalls < MaxCalls
    /\ \E text \in texts :
         /\ fault' = [kind |-> "console", err |-> NullError, fatal |-> FALSE, text |-> text]
         /\ Apply("console", TRUE, ConsoleErrorAt(installs, installs, text, 0), Nothing)
    /\ faults' = faults + 1
    /\ UNCHANGED <<store, installs, priorHandler, isDev, storageFailures, inserted>>
    /\ UNCHANGED <<nativeVars, boundaryVars, threadVars, screenVars>>

\* A component calls ErrorHandler.reportError.
reportError(limit, calls, errs) ==
    /\ faults < limit
    /\ logCalls < calls
    /\ \E err \in errs :
         /\ fault' = [kind |-> "report", err |-> err, fatal |-> FALSE, text |-> <<>>]
         /\ Apply("report", TRUE, ReportErrorEffect(installs, err, "component stack"), Nothing)
    /\ faults' = faults + 1
    /\ UNCHANGED <<store, installs, priorHandler, isDev, storageFailures, inserted>>
    /\ UNCHANGED <<nativeVars, boundaryVars, threadVars, screenVars>>

\* Whether AsyncStorage may fail now
MayFail(ok) == ok \/ storageFailures < MaxStorageFailures

\* A suspended logError resumes after its read. ErrorHandler.logError reads through
\* getErrorLogs, which reports a failure on console.error and returns []; the
\* logError of ErrorBoundary gives up in its catch block.
LogErrorRead ==
    \E t \in tasks, ok \in BOOLEAN :
      /\ t.pc = "read"
      /\ MayFail(ok)
      /\ storageFailures' = IF ok THEN storageFailures ELSE storageFailures + 1
      /\ IF ok
         THEN Apply("read", TRUE, NoEffect,
                    [Nothing EXCEPT !.done = {t},
                        !.new = {[t EXCEPT !.pc = "write", !.updatedLogs = UpdatedLogs(t.log, store)]}])
         ELSE IF t.kind = "handler"
         THEN Apply("read", FALSE,
                    ConsoleErrorAt(installs, installs, GetLogsFailedText("storage error"), 1),
                    [Nothing EXCEPT !.done = {t},
                        !.new = {[t EXCEPT !.pc = "write", !.updatedLogs = UpdatedLogs(t.log, <<>>)]}])
         ELSE Apply("read", FALSE,
                    ConsoleErrorAt(installs, installs, FailedToLogText("storage error"), 1),
                    [Nothing EXCEPT !.done = {t}])
      /\ UNCHANGED <<store, installs, priorHandler, isDev, faults, fault, inserted>>
      /\ UNCHANGED <<nativeVars, boundaryVars, threadVars, screenVars>>

\* A suspended logError resumes after AsyncStorage.setItem; a failure is reported on
\* console.error by the catch block.
LogErrorWrite ==
    \E t \in tasks, ok \in BOOLEAN :
      /\ t.pc = "write"
      /\ MayFail(ok)
      /\ storageFailures' = IF ok THEN storageFailures ELSE storageFailures + 1
      /\ IF ok
         THEN /\ store' = t.updatedLogs
              /\ inserted' = inserted \cup {t.log.id}
              /\ Apply("write", TRUE, NoEffect, [Nothing EXCEPT !.done = {t}])
         ELSE /\ UNCHANGED <<store, inserted>>
              /\ Apply("write", FALSE,
                       ConsoleErrorAt(installs, installs, FailedToLogText("storage error"), 1),
                       [Nothing EXCEPT !.done = {t}])
      /\ UNCHANGED <<installs, priorHandler, isDev, faults, fault>>
      /\ UNCHANGED <<nativeVars, boundaryVars, threadVars, screenVars>>

\* ErrorHandler.clearErrorLogs
clearErrorLogs ==
    /\ \E ok \in BOOLEAN :
         /\ MayFail(ok)
         /\ storageFailures' = IF ok THEN storageFailures ELSE storageFailures + 1
         /\ IF ok
            THEN /\ store' = <<>>
                 /\ inserted' = {}
                 /\ Apply("clear", TRUE, NoEffect, Nothing)
            ELSE /\ UNCHANGED <<store, inserted>>
                 /\ Apply("clear", FALSE,
                          ConsoleErrorAt(installs, installs, ClearFailedText("storage error"), 1),
                          Nothing)
    /\ UNCHANGED <<installs, priorHandler, isDev, faults, fault>>
    /\ UNCHANGED <<nativeVars, boundaryVars, threadVars, screenVars>>

(* ====================================================================== *)
(*                             ErrorBoundary                              *)
(* ====================================================================== *)
(* App wraps the tree in one ErrorBoundary ("outer"). The component is    *)
(* exported for reuse: a second instance ("inner") is nested in it.       *)
(* "side" is the part of outer's children outside inner, "leaf" is        *)
(* inner's children.                                                      *)

Boundaries == {"outer", "inner"}

Subtrees == {"side", "leaf"}

\* Mutant: every fault goes to the outermost boundary.
EnclosingOutermost(s) == "outer"

\* The nearest boundary around subtree s
Enclosing(s) == IF s = "leaf" THEN "inner" ELSE "outer"

RenderErrors == {NetworkDown, Bare}

\* constructor: this.state = { hasError: false, error: null, errorInfo: null }
InitialState == [hasError |-> FALSE, error |-> NullError, errorInfo |-> Null]

\* Mutant: "Try Again" keeps hasError set.
handleRestartKeepsFault == [hasError |-> TRUE, error |-> NullError, errorInfo |-> Null]

\* The state handleRestart sets: { hasError: false, error: null, errorInfo: null }
RestartState == [hasError |-> FALSE, error |-> NullError, errorInfo |-> Null]

\* getDerivedStateFromError
getDerivedStateFromError(err) == [hasError |-> TRUE, error |-> err, errorInfo |-> Null]

\* Mutant: componentDidCatch's setState clears hasError.
componentDidCatchClears(st, err, info) == [hasError |-> FALSE, error |-> err, errorInfo |-> info]

\* componentDidCatch: this.setState({ error, errorInfo }) merges into the state
componentDidCatch(st, err, info) == [st EXCEPT !.error = err, !.errorInfo = info]

\* render()
Render(b, st) ==
    IF st.hasError
    THEN [view |-> IF customFallback[b] THEN "custom" ELSE "default",
          error |-> st.error, errorInfo |-> st.errorInfo]
    ELSE [view |-> "children", error |-> NullError, errorInfo |-> Null]

\* The component stack React passes to componentDidCatch
ComponentStack(s) == IF s = "leaf" THEN "in Leaf" ELSE "in Side"

\* ErrorBoundary.logError up to its first await
BoundaryLogError ==
    LET c == ConsoleErrorAt(installs, installs, BoundaryCaughtText, 2)
    IN IF ~c.thrown THEN [eff |-> c, suspended |-> TRUE]
       ELSE LET c2 == ConsoleErrorAt(installs, installs, FailedToLogText("RangeError"), 2)
                all == Then([c EXCEPT !.thrown = FALSE], c2)
            IN [eff |-> [all EXCEPT !.rejected = all.rejected + (IF c2.thrown THEN 1 ELSE 0),
                                    !.thrown = FALSE],
                suspended |-> FALSE]

BoundaryInit(customs) ==
    /\ bState = [b \in Boundaries |-> InitialState]
    /\ mounted = [b \in Boundaries |-> TRUE]
    /\ customFallback \in [Boundaries -> customs]
    /\ faultIn = [s \in Subtrees |-> NullError]
    /\ renders = [b \in Boundaries |-> <<>>]

\* Boundary b catches err thrown while subtree s renders: getDerivedStateFromError,
\* a render of the fallback, then componentDidCatch with its setState, logError and
\* the render that follows. An outer boundary showing its fallback unmounts inner.
Catch(kind, b, s, err, base, mnt) ==
    LET st1 == getDerivedStateFromError(err)
        st2 == componentDidCatch(st1, err, ComponentStack(s))
        le == BoundaryLogError
        task == [kind |-> "boundary",
                 log |-> BoundaryLog(jsClock + Len(le.eff.started), err, ComponentStack(s)),
                 pc |-> "read", updatedLogs |-> <<>>]
    IN /\ bState' = [base EXCEPT ![b] = st2]
       /\ mounted' = IF b = "outer" THEN [mnt EXCEPT !["inner"] = FALSE] ELSE mnt
       /\ renders' = [x \in Boundaries |-> IF x = b THEN <<Render(b, st1), Render(b, st2)>> ELSE <<>>]
       /\ Apply(kind, TRUE, le.eff,
                IF le.suspended THEN [Nothing EXCEPT !.new = {task}, !.ids = 1] ELSE Nothing)

\* Rendering subtree s throws err; the nearest enclosing boundary catches it.
RenderThrows(limit, errs) ==
    /\ faults < limit
    /\ logCalls < MaxCalls
    /\ \E s \in Subtrees, err \in errs :
         /\ mounted[Enclosing(s)]
         /\ ~bState[Enclosing(s)].hasError
         /\ faultIn' = [faultIn EXCEPT ![s] = err]
         /\ fault' = [kind |-> "render", err |-> err, fatal |-> FALSE, text |-> <<>>]
         /\ Catch("render", Enclosing(s), s, err, bState, mounted)
    /\ faults' = faults + 1
    /\ UNCHANGED <<store, installs, priorHandler, isDev, storageFailures, inserted, customFallback, threadVars>>
    /\ UNCHANGED <<nativeVars, screenVars>>

\* The cause of the fault in subtree s is removed.
FixFault ==
    \E s \in Subtrees :
      /\ ~faultIn[s].nul
      /\ faultIn' = [faultIn EXCEPT ![s] = NullError]
      /\ UNCHANGED <<bState, mounted, customFallback, threadVars, renders>>
      /\ UNCHANGED <<managedVars, nativeVars, screenVars>>

\* "Try Again" of the default fallback view: setState back to the initial state; the
\* children render again, and a fault still present is caught again.
handleRestart(limit) ==
    \E b \in Boundaries :
      /\ mounted[b]
      /\ bState[b].hasError
      /\ ~customFallback[b]
      /\ LET base == IF b = "outer"
                     THEN [x \in Boundaries |-> IF x = b THEN RestartState ELSE InitialState]
                     ELSE [bState EXCEPT ![b] = RestartState]
             mnt == [x \in Boundaries |-> TRUE]
             own == IF b = "outer" THEN "side" ELSE "leaf"
         IN IF ~faultIn[own].nul
            THEN /\ faults < limit
                 /\ logCalls < MaxCalls
                 /\ faults' = faults + 1
                 /\ Catch("restart", b, own, faultIn[own], base, IF b = "outer" THEN mnt ELSE mounted)
            ELSE IF b = "outer" /\ ~faultIn["leaf"].nul
            THEN /\ faults < limit
                 /\ logCalls < MaxCalls
                 /\ faults' = faults + 1
                 /\ Catch("restart", "inner", "leaf", faultIn["leaf"], base, mnt)
            ELSE /\ faults' = faults
                 /\ bState' = base
                 /\ mounted' = IF b = "outer" THEN mnt ELSE mounted
                 /\ renders' = [x \in Boundaries |->
                                  IF x = b THEN <<Render(b, RestartState)>> ELSE <<>>]
                 /\ Apply("restart", TRUE, NoEffect, Nothing)
      /\ UNCHANGED <<store, installs, priorHandler, isDev, storageFailures, fault,
                     inserted, customFallback, threadVars, faultIn>>
      /\ UNCHANGED <<nativeVars, screenVars>>

\* "Show Details" of the default fallback view: an alert, no state change.
handleShowDetails ==
    \E b \in Boundaries :
      /\ mounted[b]
      /\ bState[b].hasError
      /\ ~customFallback[b]
      /\ Apply("details", TRUE, NoEffect, Nothing)
      /\ renders' = [x \in Boundaries |-> <<>>]
      /\ UNCHANGED <<store, installs, priorHandler, isDev, faults, storageFailures, fault,
                     inserted, bState, mounted, customFallback, threadVars, faultIn>>
      /\ UNCHANGED <<nativeVars, screenVars>>

(* ====================================================================== *)
(*                  The bridge and ErrorReportScreen                      *)
(* ====================================================================== *)

NoOutcome == [managedRead |-> "none", nativeRead |-> "none",
              managedClear |-> "none", nativeClear |-> "none"]

NoResult == [op |-> "none", ok |-> TRUE, rejected |-> FALSE, value |-> <<>>]

NotRendered == [parts |-> {}, items |-> <<>>]

(* ------------------------------ the bridge ---------------------------- *)

\* The map getNativeErrorLogs builds for one stored record with optString
NativeErrorLog(rec) ==
    [timestamp |-> Millis(rec.timestamp), context |-> rec.context, message |-> rec.message,
     stackTrace |-> "stack trace", type |-> rec.type]

\* NativeErrorModuleInterface.getNativeErrorLogs: the native method resolves with the
\* converted records or rejects.
NativeErrorLogsResult(ok) ==
    [op |-> "getNativeErrorLogs", ok |-> ok, rejected |-> ~ok,
     value |-> IF ok THEN [i \in 1..Len(nativeErrorLogs) |-> NativeErrorLog(nativeErrorLogs[i])]
               ELSE <<>>]

\* NativeCrashHandler.getNativeCrashLogs: a rejection or a parse error is caught and
\* [] is returned.
NativeCrashLogsResult(ok) ==
    [op |-> "getNativeCrashLogs", ok |-> ok, rejected |-> FALSE,
     value |-> IF ok THEN crashLogs ELSE <<>>]

\* console.error('Failed to get native crash logs:', error), joined
GetCrashLogsFailedText(e) == <<"Failed to get native crash logs:", e>>

\* The record NativeErrorModule.logNativeError puts: the message as it was passed
BridgeErrorRecord(now, context, m) ==
    [id |-> Null, timestamp |-> now, type |-> "native", thread |-> Null, context |-> context,
     message |-> m]

BridgeMessages == {"", "upload failed"}

HeldCrash(t) == CrashLogRecord(t, "main", "earlier crash")

\* The lists crash_logs may hold from earlier processes: at most n records, written
\* at increasing times.
HeldCrashLists(n) == {[i \in 1..k |-> HeldCrash(i)] : k \in 0..n}

HeldNativeError(t) == NativeErrorRecord(t, "UncaughtException", "earlier error")

\* The native side with the stores as earlier processes left them: crash_logs
\* newest first, native_error_logs oldest first.
NativeInitHeld(errLists, crashLists) ==
    /\ uncaughtHandler = <<"platform">>
    /\ INSTANCE_ = FALSE
    /\ crashLogs \in {Reverse(l) : l \in crashLists}
    /\ nativeErrorLogs \in errLists
    /\ nativeClock = MaxHeld + 1
    /\ activities = 0
    /\ crashes = 0
    /\ npc = "idle"
    /\ nPos = 0
    /\ nThread = Null
    /\ nThrowable = Null
    /\ nTrace = <<>>
    /\ crashHistory = Reverse(crashLogs)

\* Managed code calls NativeErrorModuleInterface.logNativeError.
NativeErrorModule_logNativeError(limit) ==
    /\ npc = "idle"
    /\ nativeClock < limit
    /\ \E m \in BridgeMessages, ok \in BOOLEAN :
         /\ MayFail(ok)
         /\ storageFailures' = IF ok THEN storageFailures ELSE storageFailures + 1
         /\ nativeErrorLogs' =
              IF ok THEN logNativeError(nativeErrorLogs, BridgeErrorRecord(nativeClock, "managed", m))
              ELSE nativeErrorLogs
         /\ bridgeResult' = [op |-> "logNativeError", ok |-> ok, rejected |-> ~ok, value |-> <<>>]
    /\ nativeClock' = nativeClock + 1
    /\ UNCHANGED <<uncaughtHandler, INSTANCE_, crashLogs, activities, crashes, npc, nPos,
                   nThread, nThrowable, nTrace, crashHistory>>
    /\ UNCHANGED <<store, installs, priorHandler, isDev, tasks, jsClock, logCalls, rejections,
                   faults, fault, last, inserted>>
    /\ UNCHANGED <<errors, nativeErrors, isLoading, sPc, alerts, outcome, rendered>>
    /\ UNCHANGED <<boundaryVars, threadVars>>

\* Managed code calls NativeErrorModuleInterface.getNativeErrorLogs.
getNativeErrorLogs ==
    /\ npc = "idle"
    /\ \E ok \in BOOLEAN :
         /\ MayFail(ok)
         /\ storageFailures' = IF ok THEN storageFailures ELSE storageFailures + 1
         /\ bridgeResult' = NativeErrorLogsResult(ok)
    /\ UNCHANGED <<store, installs, priorHandler, isDev, tasks, jsClock, logCalls, rejections,
                   faults, fault, last, inserted>>
    /\ UNCHANGED <<errors, nativeErrors, isLoading, sPc, alerts, outcome, rendered>>
    /\ UNCHANGED <<nativeVars, boundaryVars, threadVars>>

\* Managed code calls NativeCrashHandler.getNativeCrashLogs: the native method goes
\* through CrashHandler.getInstance; a failure is printed with console.error.
getNativeCrashLogs ==
    /\ npc = "idle"
    /\ IF INSTANCE_
       THEN UNCHANGED <<INSTANCE_, uncaughtHandler>>
       ELSE /\ INSTANCE_' = TRUE
            /\ uncaughtHandler' = <<"crash">> \o uncaughtHandler
    /\ \E ok \in BOOLEAN :
         /\ MayFail(ok)
         /\ storageFailures' = IF ok THEN storageFailures ELSE storageFailures + 1
         /\ bridgeResult' = NativeCrashLogsResult(ok)
         /\ Apply("getNativeCrashLogs", ok,
                  IF ok THEN NoEffect
                  ELSE ConsoleErrorAt(installs, installs, GetCrashLogsFailedText("bridge error"), 1),
                  Nothing)
    /\ UNCHANGED <<crashLogs, nativeErrorLogs, nativeClock, activities, crashes, npc, nPos,
                   nThread, nThrowable, nTrace, crashHistory>>
    /\ UNCHANGED <<store, installs, priorHandler, isDev, faults, fault, inserted>>
    /\ UNCHANGED <<errors, nativeErrors, isLoading, sPc, alerts, outcome, rendered>>
    /\ UNCHANGED <<boundaryVars, threadVars>>

(* ---------------------- CrashHandler.getInstance ----------------------- *)
(* getInstance as the threads of the process run it: a volatile read, the  *)
(* monitor of the companion object, a second read, the constructor, the    *)
(* assignment to INSTANCE.                                                 *)

\* Threads that call getInstance
MaxThreads == 2

Threads == 1..MaxThreads

NoLocal == [op |-> "none", inst |-> 0, path |-> "none"]

\* No thread is in getInstance and no CrashHandler exists.
ThreadInit ==
    /\ tPc = [t \in Threads |-> "idle"]
    /\ tLocal = [t \in Threads |-> NoLocal]
    /\ lockHolder = 0
    /\ instances = <<>>
    /\ published = 0

BridgeMethods == {"getNativeCrashLogs", "clearNativeCrashLogs"}

\* Mutant: getInstance without synchronized.
MayEnterUnlocked(t) == TRUE

\* synchronized(this): the monitor is free
MayEnter(t) == lockHolder = 0

\* What a thread step leaves alone on the native side
ThreadFrame ==
    UNCHANGED <<nativeErrorLogs, nativeClock, activities, crashes, npc, nPos, nThread,
                nThrowable, nTrace>>

\* A bridge method of CrashReportModule starts on thread t and calls getInstance.
CallGetInstance ==
    \E t \in Threads :
      /\ tPc[t] = "idle"
      /\ npc = "idle"
      /\ \E op \in BridgeMethods : tLocal' = [tLocal EXCEPT ![t] = [NoLocal EXCEPT !.op = op]]
      /\ tPc' = [tPc EXCEPT ![t] = "read"]
      /\ ThreadFrame
      /\ UNCHANGED <<uncaughtHandler, INSTANCE_, crashLogs, crashHistory, lockHolder, instances, published>>
      /\ UNCHANGED <<managedVars, boundaryVars, screenVars>>

\* INSTANCE ?: ... : the volatile read outside the monitor
ReadInstance ==
    \E t \in Threads :
      /\ tPc[t] = "read"
      /\ IF published # 0
         THEN /\ tLocal' = [tLocal EXCEPT ![t].inst = published, ![t].path = "found"]
              /\ tPc' = [tPc EXCEPT ![t] = "use"]
         ELSE /\ tPc' = [tPc EXCEPT ![t] = "enter"]
              /\ UNCHANGED tLocal
      /\ ThreadFrame
      /\ UNCHANGED <<uncaughtHandler, INSTANCE_, crashLogs, crashHistory, lockHolder, instances, published>>
      /\ UNCHANGED <<managedVars, boundaryVars, screenVars>>

\* synchronized(this) {
EnterSynchronized ==
    \E t \in Threads :
      /\ tPc[t] = "enter"
      /\ MayEnter(t)
      /\ lockHolder' = t
      /\ tPc' = [tPc EXCEPT ![t] = "readLocked"]
      /\ ThreadFrame
      /\ UNCHANGED <<uncaughtHandler, INSTANCE_, crashLogs, crashHistory, tLocal, instances, published>>
      /\ UNCHANGED <<managedVars, boundaryVars, screenVars>>

\* INSTANCE ?: ... : the read inside the monitor; an instance found is returned and the
\* monitor left
ReadInstanceLocked ==
    \E t \in Threads :
      /\ tPc[t] = "readLocked"
      /\ IF published # 0
         THEN /\ tLocal' = [tLocal EXCEPT ![t].inst = published, ![t].path = "foundLocked"]
              /\ tPc' = [tPc EXCEPT ![t] = "use"]
              /\ lockHolder' = 0
         ELSE /\ tPc' = [tPc EXCEPT ![t] = "construct"]
              /\ UNCHANGED <<tLocal, lockHolder>>
      /\ ThreadFrame
      /\ UNCHANGED <<uncaughtHandler, INSTANCE_, crashLogs, crashHistory, instances, published>>
      /\ UNCHANGED <<managedVars, boundaryVars, screenVars>>

\* CrashHandler(context.applicationContext): defaultHandler takes the current default
\* handler, init installs the new object as the default handler.
Construct ==
    \E t \in Threads :
      /\ tPc[t] = "construct"
      /\ instances' = Append(instances, [defaultHandler |-> uncaughtHandler[1]])
      /\ uncaughtHandler' = <<"crash">> \o uncaughtHandler
      /\ tLocal' = [tLocal EXCEPT ![t].inst = Len(instances) + 1, ![t].path = "constructed"]
      /\ tPc' = [tPc EXCEPT ![t] = "publish"]
      /\ ThreadFrame
      /\ UNCHANGED <<INSTANCE_, crashLogs, crashHistory, lockHolder, published>>
      /\ UNCHANGED <<managedVars, boundaryVars, screenVars>>

\* .also { INSTANCE = it } }: the assignment, then the monitor is left
Publish ==
    \E t \in Threads :
      /\ tPc[t] = "publish"
      /\ published' = tLocal[t].inst
      /\ INSTANCE_' = TRUE
      /\ lockHolder' = 0
      /\ tPc' = [tPc EXCEPT ![t] = "use"]
      /\ ThreadFrame
      /\ UNCHANGED <<uncaughtHandler, crashLogs, crashHistory, tLocal, instances>>
      /\ UNCHANGED <<managedVars, boundaryVars, screenVars>>

\* The bridge method goes on with the instance it got: getCrashLogs or clearCrashLogs.
UseInstance ==
    \E t \in Threads :
      /\ tPc[t] = "use"
      /\ IF tLocal[t].op = "clearNativeCrashLogs"
         THEN crashLogs' = <<>> /\ crashHistory' = <<>>
         ELSE UNCHANGED <<crashLogs, crashHistory>>
      /\ tPc' = [tPc EXCEPT ![t] = "idle"]
      /\ ThreadFrame
      /\ UNCHANGED <<uncaughtHandler, INSTANCE_, tLocal, lockHolder, instances, published>>
      /\ UNCHANGED <<managedVars, boundaryVars, screenVars>>

(* ------------------------------ the screen ---------------------------- *)

\* The screen is not mounted; useState gives [], [] and true at the mount.
ScreenInit ==
    /\ errors = <<>>
    /\ nativeErrors = <<>>
    /\ isLoading = TRUE
    /\ sPc = "closed"
    /\ alerts = <<>>
    /\ outcome = NoOutcome
    /\ rendered = NotRendered
    /\ bridgeResult = NoResult

\* new Date(...).getTime(): an instant, or NaN for an Invalid Date
NaN == [nan |-> TRUE, t |-> 0]

Instant(n) == [nan |-> FALSE, t |-> n]

\* parseInt of a timestamp text of a native record: the number a decimal text
\* spells, NaN for the empty text optString falls back to
parseInt(text) == IF "ms" \in DOMAIN text THEN Instant(text.ms) ELSE NaN

\* new Date(text).getTime(): only an ISO text parses; a text of thirteen digits is
\* an Invalid Date
DateParse(text) == IF "iso" \in DOMAIN text THEN Instant(text.iso) ELSE NaN

\* Mutant: every timestamp goes to new Date as it is.
ItemTimeAlwaysDate(a) == DateParse(a.timestamp)

\* new Date('stackTrace' in a ? parseInt(a.timestamp) : a.timestamp).getTime()
ItemTime(a) ==
    IF "stackTrace" \in DOMAIN a THEN parseInt(a.timestamp) ELSE DateParse(a.timestamp)

\* The comparator returns timeB - timeA; a positive result puts a after b, NaN
\* counts as zero.
SortsAfter(a, b) ==
    LET timeA == ItemTime(a)
        timeB == ItemTime(b)
    IN ~timeA.nan /\ ~timeB.nan /\ timeB.t > timeA.t

\* x put into the sorted list: behind every item it does not have to precede
RECURSIVE InsertItem(_, _)
InsertItem(sorted, x) ==
    IF sorted = <<>> THEN <<x>>
    ELSE LET y == sorted[Len(sorted)]
         IN IF SortsAfter(y, x)
            THEN InsertItem(SubSeq(sorted, 1, Len(sorted) - 1), x) \o <<y>>
            ELSE sorted \o <<x>>

\* Array.prototype.sort with that comparator: a stable sort
RECURSIVE SortItems(_)
SortItems(items) ==
    IF items = <<>> THEN <<>>
    ELSE InsertItem(SortItems(SubSeq(items, 1, Len(items) - 1)), items[Len(items)])

\* { ...error, _type }
WithType(rec, type) ==
    [f \in DOMAIN rec \cup {"_type"} |-> IF f = "_type" THEN type ELSE rec[f]]

\* The concatenation the sort starts from: managed records, then native ones
Concatenated(errs, nats) ==
    [i \in 1..Len(errs) |-> WithType(errs[i], "js")] \o
    [i \in 1..Len(nats) |-> WithType(nats[i], "native")]

allErrors(errs, nats) == SortItems(Concatenated(errs, nats))

\* What the component renders for a state
ScreenRender(errs, nats, loading) ==
    IF loading THEN [parts |-> {"loading"}, items |-> <<>>]
    ELSE LET all == allErrors(errs, nats)
         IN [parts |-> {"header"} \cup
                       (IF Len(all) > 0 THEN {"clearButton", "summary", "list"} ELSE {"empty"}),
             items |-> all]

\* console.error('Error loading error logs:', error), joined
LoadFailedText(e) == <<"Error loading error logs:", e>>

\* console.error('Failed to load native error logs:', nativeError), joined
LoadNativeFailedText(e) == <<"Failed to load native error logs:", e>>

\* console.error('Failed to clear native error logs:', nativeError), joined
ClearNativeFailedText(e) == <<"Failed to clear native error logs:", e>>

LoadFailedAlert == <<"Error", "Failed to load error logs">>

ConfirmAlert == <<"Clear All Errors", "Are you sure you want to clear all error logs? This cannot be undone.">>

SuccessAlert == <<"Success", "All error logs have been cleared">>

ClearFailedAlert == <<"Error", "Failed to clear error logs">>

\* A record of an earlier session captured at instant t; id tells the records apart
HeldManaged(id, t) ==
    [ErrorLog(id, Info("javascript", <<"earlier session">>, Null, Null)) EXCEPT !.timestamp = Iso(t)]

\* Capture instants of k records, newest first or oldest first
Instants(k, newestFirst) ==
    {f \in [1..k -> 1..MaxTime] :
        \A i \in 1..(k - 1) : IF newestFirst THEN f[i] >= f[i + 1] ELSE f[i] <= f[i + 1]}

\* The item @voice_journal_error_logs as earlier sessions left it: logError prepends
ManagedStores ==
    UNION {{[i \in 1..k |-> HeldManaged(k + 1 - i, f[i])] : f \in Instants(k, TRUE)} : k \in 0..MaxList}

\* native_error_logs as earlier processes left it: the handler appends
NativeStores ==
    UNION {{[i \in 1..k |-> HeldNativeError(f[i])] : f \in Instants(k, FALSE)} : k \in 0..MaxList}

\* The managed side when the screen is opened over those stores
ScreenManagedInit(stores, insts) ==
    /\ store \in stores
    /\ installs \in insts
    /\ priorHandler = FALSE
    /\ isDev = FALSE
    /\ tasks = {}
    /\ jsClock = MaxList + MaxTime + 1
    /\ logCalls = 0
    /\ rejections = 0
    /\ faults = 0
    /\ storageFailures = 0
    /\ fault = NoFault
    /\ last = Step("init", TRUE, NoEffect)
    /\ inserted = {store[i].id : i \in 1..Len(store)}

\* The screen is mounted: the first render shows the loading view and the effect
\* starts loadAllErrorLogs, which suspends at AsyncStorage.getItem.
OpenScreen ==
    /\ sPc = "closed"
    /\ sPc' = "loadManaged"
    /\ errors' = <<>>
    /\ nativeErrors' = <<>>
    /\ isLoading' = TRUE
    /\ outcome' = NoOutcome
    /\ rendered' = ScreenRender(errors', nativeErrors', isLoading')
    /\ Apply("open", TRUE, NoEffect, Nothing)
    /\ UNCHANGED <<alerts, bridgeResult>>
    /\ UNCHANGED <<store, installs, priorHandler, isDev, faults, storageFailures, fault, inserted>>
    /\ UNCHANGED <<nativeVars, boundaryVars, threadVars>>

\* loadAllErrorLogs resumes after AsyncStorage.getItem: the records are set and the
\* native read starts, or the outer catch reports and the finally block ends loading.
LoadManaged ==
    /\ sPc = "loadManaged"
    /\ \E ok \in BOOLEAN :
         /\ MayFail(ok)
         /\ storageFailures' = IF ok THEN storageFailures ELSE storageFailures + 1
         /\ outcome' = [outcome EXCEPT !.managedRead = IF ok THEN "ok" ELSE "failed"]
         /\ IF ok
            THEN /\ errors' = IF store # <<>> THEN store ELSE errors
                 /\ sPc' = "loadNative"
                 /\ UNCHANGED <<isLoading, alerts>>
                 /\ Apply("loadManaged", TRUE, NoEffect, Nothing)
            ELSE /\ sPc' = "shown"
                 /\ isLoading' = FALSE
                 /\ alerts' = Append(alerts, LoadFailedAlert)
                 /\ UNCHANGED errors
                 /\ Apply("loadManaged", FALSE,
                          ConsoleErrorAt(installs, installs, LoadFailedText("storage error"), 0),
                          Nothing)
    /\ UNCHANGED <<nativeErrors, bridgeResult>>
    /\ UNCHANGED <<store, installs, priorHandler, isDev, faults, fault, inserted>>
    /\ UNCHANGED <<nativeVars, boundaryVars, threadVars>>
    /\ rendered' = ScreenRender(errors', nativeErrors', isLoading')

\* loadAllErrorLogs resumes after getNativeErrorLogs: the records are set, or the
\* inner catch reports on console.error; the finally block ends loading.
LoadNative ==
    /\ sPc = "loadNative"
    /\ \E ok \in BOOLEAN :
         /\ MayFail(ok)
         /\ storageFailures' = IF ok THEN storageFailures ELSE storageFailures + 1
         /\ outcome' = [outcome EXCEPT !.nativeRead = IF ok THEN "ok" ELSE "failed"]
         /\ bridgeResult' = NativeErrorLogsResult(ok)
         /\ IF ok
            THEN /\ nativeErrors' = bridgeResult'.value
                 /\ Apply("loadNative", TRUE, NoEffect, Nothing)
            ELSE /\ UNCHANGED nativeErrors
                 /\ Apply("loadNative", FALSE,
                          ConsoleErrorAt(installs, installs, LoadNativeFailedText("bridge error"), 0),
                          Nothing)
    /\ sPc' = "shown"
    /\ isLoading' = FALSE
    /\ UNCHANGED <<errors, alerts>>
    /\ UNCHANGED <<store, installs, priorHandler, isDev, faults, fault, inserted>>
    /\ UNCHANGED <<nativeVars, boundaryVars, threadVars>>
    /\ rendered' = ScreenRender(errors', nativeErrors', isLoading')

\* The user presses "Clear All", which is rendered while the list is not empty:
\* clearAllErrors shows the confirmation dialog.
PressClearAll ==
    /\ sPc = "shown"
    /\ "clearButton" \in rendered.parts
    /\ Len(alerts) < MaxAlerts
    /\ sPc' = "confirm"
    /\ alerts' = Append(alerts, ConfirmAlert)
    /\ Apply("pressClearAll", TRUE, NoEffect, Nothing)
    /\ UNCHANGED <<errors, nativeErrors, isLoading, outcome, rendered, bridgeResult>>
    /\ UNCHANGED <<store, installs, priorHandler, isDev, faults, storageFailures, fault, inserted>>
    /\ UNCHANGED <<nativeVars, boundaryVars, threadVars>>

\* The user chooses "Cancel".
Cancel ==
    /\ sPc = "confirm"
    /\ sPc' = "shown"
    /\ Apply("cancel", TRUE, NoEffect, Nothing)
    /\ UNCHANGED <<errors, nativeErrors, isLoading, alerts, outcome, rendered, bridgeResult>>
    /\ UNCHANGED <<store, installs, priorHandler, isDev, faults, storageFailures, fault, inserted>>
    /\ UNCHANGED <<nativeVars, boundaryVars, threadVars>>

\* The user chooses "Clear All": onPress suspends at AsyncStorage.removeItem.
ConfirmClear ==
    /\ sPc = "confirm"
    /\ sPc' = "clearManaged"
    /\ outcome' = [outcome EXCEPT !.managedClear = "none", !.nativeClear = "none"]
    /\ Apply("confirmClear", TRUE, NoEffect, Nothing)
    /\ UNCHANGED <<errors, nativeErrors, isLoading, alerts, rendered, bridgeResult>>
    /\ UNCHANGED <<store, installs, priorHandler, isDev, faults, storageFailures, fault, inserted>>
    /\ UNCHANGED <<nativeVars, boundaryVars, threadVars>>

\* onPress resumes after AsyncStorage.removeItem: setErrors([]) and the native clear
\* starts, or the outer catch shows the error dialog.
ClearManaged ==
    /\ sPc = "clearManaged"
    /\ \E ok \in BOOLEAN :
         /\ MayFail(ok)
         /\ storageFailures' = IF ok THEN storageFailures ELSE storageFailures + 1
         /\ outcome' = [outcome EXCEPT !.managedClear = IF ok THEN "ok" ELSE "failed"]
         /\ IF ok
            THEN /\ store' = <<>>
                 /\ inserted' = {}
                 /\ errors' = <<>>
                 /\ sPc' = "clearNative"
                 /\ UNCHANGED alerts
            ELSE /\ sPc' = "shown"
                 /\ alerts' = Append(alerts, ClearFailedAlert)
                 /\ UNCHANGED <<store, inserted, errors>>
         /\ Apply("clearManaged", ok, NoEffect, Nothing)
    /\ UNCHANGED <<nativeErrors, isLoading, bridgeResult>>
    /\ UNCHANGED <<installs, priorHandler, isDev, faults, fault>>
    /\ UNCHANGED <<nativeVars, boundaryVars, threadVars>>
    /\ rendered' = ScreenRender(errors', nativeErrors', isLoading')

\* onPress resumes after clearNativeErrorLogs: setNativeErrors([]), or the inner
\* catch reports on console.error; the success dialog is shown in both cases.
ClearNative ==
    /\ sPc = "clearNative"
    /\ \E ok \in BOOLEAN :
         /\ MayFail(ok)
         /\ storageFailures' = IF ok THEN storageFailures ELSE storageFailures + 1
         /\ outcome' = [outcome EXCEPT !.nativeClear = IF ok THEN "ok" ELSE "failed"]
         /\ bridgeResult' = [op |-> "clearNativeErrorLogs", ok |-> ok, rejected |-> ~ok, value |-> <<>>]
         /\ IF ok
            THEN /\ nativeErrorLogs' = <<>>
                 /\ nativeErrors' = <<>>
                 /\ Apply("clearNative", TRUE, NoEffect, Nothing)
            ELSE /\ UNCHANGED <<nativeErrorLogs, nativeErrors>>
                 /\ Apply("clearNative", FALSE,
                          ConsoleErrorAt(installs, installs, ClearNativeFailedText("bridge error"), 0),
                          Nothing)
    /\ sPc' = "shown"
    /\ alerts' = Append(alerts, SuccessAlert)
    /\ UNCHANGED <<errors, isLoading>>
    /\ UNCHANGED <<store, installs, priorHandler, isDev, faults, fault, inserted>>
    /\ UNCHANGED <<uncaughtHandler, INSTANCE_, crashLogs, nativeClock, activities, crashes, npc,
                   nPos, nThread, nThrowable, nTrace, crashHistory>>
    /\ UNCHANGED <<boundaryVars, threadVars>>
    /\ rendered' = ScreenRender(errors', nativeErrors', isLoading')

(* --------------------------- specifications --------------------------- *)

Init == NativeInit /\ ManagedInit(BOOLEAN, BOOLEAN, 0, {0}) /\ BoundaryInit({FALSE})
        /\ ScreenInit
    /\ ThreadInit

\* The global fault interceptor.
Next ==
    \/ setupGlobalErrorHandling
    \/ GlobalFault(MaxFaults, Errors)
    \/ UnhandledRejection(MaxFaults, Errors)
    \/ RejectedLogError
    \/ ConsoleError(MaxFaults, ConsoleTexts)
    \/ reportError(MaxFaults, MaxCalls, Errors)
    \/ LogErrorRead
    \/ LogErrorWrite

Spec == Init /\ [][Next]_vars

NativeOnlyInit ==
    /\ NativeInit
    /\ ManagedInit({FALSE}, {FALSE}, 0, {0})
    /\ BoundaryInit({FALSE})
    /\ ScreenInit
    /\ ThreadInit

SpecNative == NativeOnlyInit /\ [][NativeNext]_vars

SpecCrashStore == NativeOnlyInit /\ [][CrashStoreNext]_vars

\* console.error after zero or more installations of the wrapper.
ConsoleNext ==
    \/ ConsoleError(MaxFaults, ConsoleTexts)
    \/ RejectedLogError
    \/ LogErrorRead
    \/ LogErrorWrite

ConsoleInit ==
    NativeInit /\ ManagedInit({FALSE}, {FALSE}, 0, 0..MaxInstalls) /\ BoundaryInit({FALSE})
        /\ ScreenInit
    /\ ThreadInit

SpecConsole == ConsoleInit /\ [][ConsoleNext]_vars

\* The store as earlier sessions left it, one record short of MAX_ERROR_LOGS
StoreHeld == MAX_ERROR_LOGS - 1

StoreInit == NativeInit /\ ManagedInit({FALSE}, {FALSE}, StoreHeld, {0}) /\ BoundaryInit({FALSE})
        /\ ScreenInit
    /\ ThreadInit

\* No logError is suspended
Quiet == tasks = {}

\* Insertions into the store one after the other, through ErrorHandler.logError
\* (reportError) and through ErrorBoundary.logError (a render fault, or "Try Again"
\* while the fault persists); no global handler is installed.
StoreNext ==
    \/ Quiet /\ reportError(MaxExtra, MaxExtra, {NetworkDown})
    \/ Quiet /\ RenderThrows(MaxExtra, {NetworkDown})
    \/ Quiet /\ handleRestart(MaxExtra)
    \/ FixFault
    \/ LogErrorRead
    \/ LogErrorWrite

SpecStore == StoreInit /\ [][StoreNext]_vars

BoundaryOnlyInit == NativeInit /\ ManagedInit({FALSE}, {FALSE}, 0, {0}) /\ BoundaryInit(BOOLEAN)
        /\ ScreenInit
    /\ ThreadInit

\* The two nested boundaries, their users and their logging.
BoundaryNext ==
    \/ RenderThrows(MaxFaults, RenderErrors)
    \/ FixFault
    \/ handleRestart(MaxFaults + 1)
    \/ handleShowDetails
    \/ LogErrorRead
    \/ LogErrorWrite

SpecBoundary == BoundaryOnlyInit /\ [][BoundaryNext]_vars

\* App as it runs: the global handlers were installed while its module loaded, and
\* its tree is inside the boundaries.
AppInit == NativeInit /\ ManagedInit({FALSE}, {FALSE}, 0, {1}) /\ BoundaryInit({FALSE})
        /\ ScreenInit
    /\ ThreadInit

AppNext ==
    \/ RenderThrows(MaxFaults, RenderErrors)
    \/ FixFault
    \/ handleRestart(MaxFaults + 1)
    \/ handleShowDetails
    \/ RejectedLogError
    \/ LogErrorRead
    \/ LogErrorWrite

SpecApp == AppInit /\ [][AppNext]_vars

BridgeInit ==
    /\ NativeInitHeld({<<>>}, HeldCrashLists(MaxHeld))
    /\ ManagedInit({FALSE}, {FALSE}, 0, {0})
    /\ BoundaryInit({FALSE})
    /\ ScreenInit
    /\ ThreadInit

\* The managed-side entry points of the bridge.
BridgeNext ==
    \/ NativeErrorModule_logNativeError(MaxHeld + 1 + MaxBridgeLogs)
    \/ getNativeErrorLogs
    \/ getNativeCrashLogs

SpecBridge == BridgeInit /\ [][BridgeNext]_vars

ScreenSpecInit ==
    /\ NativeInitHeld(NativeStores, HeldCrashLists(MaxHeld))
    /\ ScreenManagedInit(ManagedStores, {0, 1})
    /\ BoundaryInit({FALSE})
    /\ ScreenInit
    /\ ThreadInit

\* The report screen over the stores of earlier sessions; the logError calls its
\* console.error output sets off under the installed wrapper run to their end.
ScreenNext ==
    \/ OpenScreen
    \/ LoadManaged
    \/ LoadNative
    \/ PressClearAll
    \/ Cancel
    \/ ConfirmClear
    \/ ClearManaged
    \/ ClearNative
    \/ LogErrorRead
    \/ LogErrorWrite

SpecScreen == ScreenSpecInit /\ [][ScreenNext]_vars

MergeInit ==
    /\ NativeInitHeld(NativeStores, {<<>>})
    /\ ScreenManagedInit(ManagedStores, {0})
    /\ BoundaryInit({FALSE})
    /\ ScreenInit
    /\ ThreadInit

\* The screen is opened and loads both collections.
MergeNext ==
    \/ OpenScreen
    \/ LoadManaged
    \/ LoadNative

SpecMerge == MergeInit /\ [][MergeNext]_vars

NativeStoreHeld == MAX_NATIVE_ERROR_LOGS - 1

\* native_error_logs one record short of its bound
NativeStoreInit ==
    /\ uncaughtHandler = <<"platform">>
    /\ INSTANCE_ = FALSE
    /\ crashLogs = <<>>
    /\ nativeErrorLogs = [i \in 1..NativeStoreHeld |-> HeldNativeError(i)]
    /\ nativeClock = NativeStoreHeld + 1
    /\ activities = 0
    /\ crashes = 0
    /\ npc = "idle"
    /\ nPos = 0
    /\ nThread = Null
    /\ nThrowable = Null
    /\ nTrace = <<>>
    /\ crashHistory = <<>>
    /\ ManagedInit({FALSE}, {FALSE}, 0, {0})
    /\ BoundaryInit({FALSE})
    /\ ScreenInit
    /\ ThreadInit

\* The writers and the reader of native_error_logs: the bridge module and the
\* activity with its uncaught-exception lambda.
NativeStoreNext ==
    \/ NativeErrorModule_logNativeError(NativeStoreHeld + 1 + MaxBridgeLogs)
    \/ getNativeErrorLogs
    \/ ActivityOnCreate
    \/ UncaughtException(MaxCrashes, NativeFaultsOne)
    \/ activityUncaughtException
    \/ ProcessRestart

SpecNativeStore == NativeStoreInit /\ [][NativeStoreNext]_vars

SingletonInit ==
    /\ NativeInitHeld({<<>>}, HeldCrashLists(MaxHeld))
    /\ ManagedInit({FALSE}, {FALSE}, 0, {0})
    /\ BoundaryInit({FALSE})
    /\ ScreenInit
    /\ ThreadInit

\* Threads of the bridge call getInstance while the activity is created.
SingletonNext ==
    \/ CallGetInstance
    \/ ReadInstance
    \/ EnterSynchronized
    \/ ReadInstanceLocked
    \/ Construct
    \/ Publish
    \/ UseInstance
    \/ ActivityOnCreate

SpecSingleton == SingletonInit /\ [][SingletonNext]_vars

(* ------------------------- native-side claims ------------------------- *)

\* The positions of nTrace holding an event of kind ev for the handler at pos
EventsAt(ev, pos) == {i \in 1..Len(nTrace) : nTrace[i].ev = ev /\ nTrace[i].pos = pos}

\* The records of a store captured during the dispatch going on
NewRecords(logs) == {i \in 1..Len(logs) : logs[i].timestamp = nativeClock}

\* C2: the persisted crash_logs list never holds more than MAX_CRASH_LOGS records;
\* it is the most recently persisted crashes (since the last clear), newest first,
\* so the newest crash is at index 1 and the times strictly decrease.
C2_CrashStoreBound ==
    /\ Len(crashLogs) <= MAX_CRASH_LOGS
    /\ crashLogs = Take(Reverse(crashHistory), MAX_CRASH_LOGS)
    /\ \A i, j \in 1..Len(crashLogs) : i < j => crashLogs[i].timestamp > crashLogs[j].timestamp

C2_Witness ==
    /\ Len(crashHistory) > MAX_CRASH_LOGS
    /\ Len(crashLogs) = MAX_CRASH_LOGS
    /\ crashLogs[1] = crashHistory[Len(crashHistory)]

\* C3: every native handler that ran its persistence attempt, whether it succeeded
\* or failed, then called the handler registered before it exactly once, right after
\* the attempt and with the thread and throwable it was given itself; no dispatch
\* ends (by an exception leaving a handler) before the platform handler is reached.
C3_NativeChaining ==
    /\ \A i \in 1..Len(nTrace) :
         nTrace[i].ev = "persist" =>
            /\ i < Len(nTrace)
            /\ \E e \in EventsAt("enter", nTrace[i].pos) :
                 /\ e < i
                 /\ nTrace[i + 1] = Enter(nTrace[i].pos + 1, nTrace[e].thread, nTrace[e].throwable)
            /\ Cardinality(EventsAt("enter", nTrace[i].pos + 1)) = 1
    /\ (nTrace # <<>> /\ npc # "handling") =>
         /\ npc = "dead"
         /\ uncaughtHandler[nTrace[Len(nTrace)].pos] = "platform"

C3_Witness ==
    /\ npc = "dead"
    /\ \E i \in 1..Len(nTrace) :
         /\ nTrace[i].ev = "persist"
         /\ ~nTrace[i].ok
         /\ uncaughtHandler[nTrace[i].pos] = "crash"
    /\ \E i \in 1..Len(nTrace) :
         /\ nTrace[i].ev = "persist"
         /\ nTrace[i].ok

\* C9 (as claimed): once the dispatch of an uncaught "null pointer" on thread
\* "worker-1" has reached the platform handler with every persistence attempt
\* successful, each native store with a handler installed holds exactly one new
\* record carrying that message (and, in crash_logs, whose records have a thread
\* field, that thread name), whatever the number of earlier MainActivity.onCreate
\* and CrashHandler.getInstance calls.
C9_OneNewRecord ==
    (/\ npc = "dead"
     /\ nThread = "worker-1"
     /\ nThrowable = "null pointer"
     /\ \A i \in 1..Len(nTrace) : nTrace[i].ok) =>
        /\ uncaughtHandler[nTrace[Len(nTrace)].pos] = "platform"
        /\ (\E p \in 1..Len(uncaughtHandler) : uncaughtHandler[p] = "crash") =>
              /\ Cardinality(NewRecords(crashLogs)) = 1
              /\ \A i \in NewRecords(crashLogs) :
                   crashLogs[i].thread = "worker-1" /\ crashLogs[i].message = "null pointer"
        /\ (\E p \in 1..Len(uncaughtHandler) : uncaughtHandler[p] = "activity") =>
              /\ Cardinality(NewRecords(nativeErrorLogs)) = 1
              /\ \A i \in NewRecords(nativeErrorLogs) :
                   nativeErrorLogs[i].message = "null pointer"

(* ------------------------ managed-side claims ------------------------- *)

\* C1 (as claimed): whenever no logError is suspended and more than MAX_ERROR_LOGS
\* insertions have completed one after the other, the store holds exactly
\* MAX_ERROR_LOGS records and they are the most recently inserted ones, newest
\* first: its i-th record is the inserted record with exactly i - 1 newer ones.
C1_StoreBound ==
    (Quiet /\ Cardinality(inserted) > MAX_ERROR_LOGS) =>
        /\ Len(store) = MAX_ERROR_LOGS
        /\ \A i \in 1..Len(store) :
             /\ store[i].id \in inserted
             /\ Cardinality({x \in inserted : x > store[i].id}) = i - 1

\* C4 (as claimed): with a handler registered before the installation, every
\* uncaught fault (error, isFatal) that reaches the installed handler has logError
\* invoked and the earlier handler invoked, each time with the same (error, isFatal).
C4_ManagedChaining ==
    (last.kind = "uncaught" /\ installs >= 1 /\ priorHandler) =>
        /\ last.eff.called # <<>>
        /\ last.eff.prior # <<>>
        /\ \A i \in 1..Len(last.eff.prior) : last.eff.prior[i] = <<fault.err, fault.fatal>>

\* The message under which the wrappers log the fault itself
OwnMessage ==
    IF fault.kind = "console" THEN <<"Console Error:">> \o fault.text
    ELSE OrElse(fault.err.message, <<"Unknown JavaScript error">>)

\* C5 (as claimed): after two or more calls of setupGlobalErrorHandling, an uncaught
\* exception (with an error object) or a non-benign console error is logged under
\* its own message exactly once, the handler registered before the installation is
\* invoked once, and the original console channel prints a console error once.
C5_IdempotentInstall ==
    (/\ installs >= 2
     /\ \/ last.kind = "uncaught" /\ ~fault.err.nul
        \/ last.kind = "console" /\ ~Benign(fault.text)) =>
        /\ Cardinality({i \in 1..Len(last.eff.called) : last.eff.called[i].message = OwnMessage}) = 1
        /\ (last.kind = "uncaught" /\ priorHandler) => Len(last.eff.prior) = 1
        /\ last.kind = "console" =>
              Cardinality({i \in 1..Len(last.eff.raw) : last.eff.raw[i] = fault.text}) = 1

\* C6 (as claimed): with the handlers installed, a failed read or write inside
\* ErrorHandler.logError invokes logError for nothing, prints on the original
\* console channel only, and throws nothing.
C6_NoReentry ==
    (last.kind \in {"read", "write"} /\ ~last.ok /\ installs >= 1) =>
        /\ last.eff.called = <<>>
        /\ Len(last.eff.raw) = 1
        /\ last.eff.rejected = 0
        /\ ~last.eff.thrown

\* C7: a console.error call with a benign text invokes logError for nothing and
\* suspends none, throws nothing, and prints that text exactly once on the
\* original channel, however many wrappers are installed; no record with a benign
\* text is ever in the store or on its way to it.
C7_BenignConsole ==
    /\ (last.kind = "console" /\ Benign(fault.text)) =>
           last.eff = [NoEffect EXCEPT !.raw = <<fault.text>>]
    /\ \A i \in 1..Len(store) : ~Benign(store[i].message)
    /\ \A t \in tasks : ~Benign(t.log.message)

C7_Witness ==
    /\ installs >= 2
    /\ last.kind = "console"
    /\ fault.text = <<"Warning:", "componentWillMount is deprecated">>
    /\ last.eff.raw = <<fault.text>>
    /\ store = <<>>

\* C8 (as claimed): once the only fault so far, an unhandled rejection with
\* new Error("network down") under installed handlers, has been logged with no
\* storage failure and no logError suspended, the store holds exactly one record,
\* of type "promise", whose message is "network down".
C8_RejectionRecord ==
    (/\ faults = 1
     /\ fault.kind = "rejection"
     /\ fault.err = NetworkDown
     /\ storageFailures = 0
     /\ Quiet) =>
        /\ Len(store) = 1
        /\ store[1].type = "promise"
        /\ store[1].message = <<"network down">>

(* --------------------------- boundary claims -------------------------- *)

\* C10: every boundary starts Healthy; a boundary that entered Faulted in
\* getDerivedStateFromError is still Faulted after componentDidCatch; and a mounted
\* boundary leaves Faulted for Healthy only in a handleRestart step, never when a
\* logError resumes or fails, when details are shown, or when a fault is fixed.
C10_BoundaryStateMachine ==
    /\ \A b \in Boundaries : ~bState[b].hasError
    /\ [](\A b \in Boundaries :
            (renders[b] # <<>> /\ renders[b][1].view # "children") =>
               /\ bState[b].hasError
               /\ \A i \in 1..Len(renders[b]) : renders[b][i].view # "children")
    /\ [][\A b \in Boundaries :
            (mounted[b] /\ bState[b].hasError /\ mounted'[b] /\ ~bState'[b].hasError)
               => last'.kind = "restart"]_vars

C10_Witness ==
    /\ \E b \in Boundaries : mounted[b] /\ bState[b].hasError /\ renders[b] = <<>>
    /\ last.kind = "write"
    /\ last.ok
    /\ \E i \in 1..Len(store) : store[i].type = "component"

\* The children a boundary renders itself: what is not inside a nested boundary
Own(b) == IF b = "outer" THEN "side" ELSE "leaf"

\* C11: a "Try Again" step of the mounted Faulted boundary renders its children
\* again: if the fault in them has been removed the boundary is Healthy afterwards
\* and its render returns the children; if the fault is still there the boundary is
\* Faulted again, with that same error, and its render returns the fallback.
\* (A step that leaves kind "restart" in place and changes faultIn is the removal of
\* a fault's cause after a restart, not a restart.)
C11_BoundaryRecovery ==
    [][(last'.kind = "restart" /\ faultIn' = faultIn) =>
         \A b \in Boundaries :
            (mounted[b] /\ bState[b].hasError) =>
               /\ mounted'[b]
               /\ IF faultIn[Own(b)].nul
                  THEN /\ ~bState'[b].hasError
                       /\ Render(b, bState'[b]).view = "children"
                  ELSE /\ bState'[b].hasError
                       /\ bState'[b].error = faultIn[Own(b)]
                       /\ Render(b, bState'[b]).view = "default"]_vars

C11_Witness ==
    /\ last.kind = "restart"
    /\ ~bState["inner"].hasError
    /\ renders["inner"] = <<Render("inner", RestartState)>>
    /\ faultIn["leaf"].nul
    /\ \E i \in 1..Len(store) : store[i].componentStack = ComponentStack("leaf")

C13_BoundaryCapture ==
    (faults = 1 /\ fault.kind = "render" /\ storageFailures = 0 /\ Quiet) =>
        \A b \in Boundaries :
           (mounted[b] /\ bState[b].hasError) =>
              /\ bState[b].error = fault.err
              /\ bState[b].errorInfo = ComponentStack(Own(b))
              /\ Render(b, bState[b]).view # "children"
              /\ Cardinality({i \in 1..Len(store) : store[i].type = "component"}) = 1
              /\ \A i \in 1..Len(store) :
                   store[i].type = "component" =>
                      /\ store[i].message = OrElse(fault.err.message, <<"Component error">>)
                      /\ store[i].stack = (IF fault.err.stack = Null THEN "No stack trace" ELSE fault.err.stack)
                      /\ store[i].componentStack = ComponentStack(Own(b))

(* ---------------------- bridge and screen claims ---------------------- *)

\* C14 (as claimed): whenever a managed-side read of native records has failed,
\* through NativeErrorModuleInterface.getNativeErrorLogs or through
\* NativeCrashHandler.getNativeCrashLogs, the promise it returned is rejected.
C14_ExplicitReadFailure ==
    (bridgeResult.op \in {"getNativeErrorLogs", "getNativeCrashLogs"} /\ ~bridgeResult.ok) =>
        bridgeResult.rejected

\* C20 (as claimed): in every reachable state every record of the managed store, of
\* crash_logs and of native_error_logs has a non-empty message, whichever path wrote
\* it, the bridge operation logNativeError included.
C20_MessageNeverEmpty ==
    /\ \A i \in 1..Len(store) : store[i].message # <<>>
    /\ \A i \in 1..Len(crashLogs) : crashLogs[i].message \notin {"", Null}
    /\ \A i \in 1..Len(nativeErrorLogs) : nativeErrorLogs[i].message \notin {"", Null}

\* The instant a listed item was captured at
Stamp(item) == IF item._type = "js" THEN item.timestamp.iso ELSE item.timestamp.ms

\* C17: whenever the report screen shows the list, the list holds the managed and the
\* native records it has read, ordered by capture instant descending, and items
\* captured at the same instant stand in the order of the concatenation managed-then-
\* native.
C17_MergeOrdering ==
    "list" \in rendered.parts =>
        LET src == Concatenated(errors, nativeErrors)
            n == Len(src)
        IN /\ Len(rendered.items) = n
           /\ \E perm \in [1..n -> 1..n] :
                /\ \A i \in 1..n : rendered.items[i] = src[perm[i]]
                /\ \A i, j \in 1..n : i < j =>
                      \/ Stamp(rendered.items[i]) > Stamp(rendered.items[j])
                      \/ /\ Stamp(rendered.items[i]) = Stamp(rendered.items[j])
                         /\ perm[i] < perm[j]

\* Managed records captured at 1 and 3 and a native record captured at 2 are listed
\* as 3, 2, 1.
C17_Witness ==
    /\ "list" \in rendered.parts
    /\ Len(errors) = 2
    /\ Len(nativeErrors) = 1
    /\ [i \in 1..3 |-> <<rendered.items[i]._type, Stamp(rendered.items[i])>>] =
         <<(<<"js", 3>>), (<<"native", 2>>), (<<"js", 1>>)>>

\* C15 (as claimed): once loading has ended with a failed getNativeErrorLogs, the
\* screen is out of the loading state, lists every managed record it has read, and
\* shows an indicator that the native records are unavailable.
C15_GracefulNativeReadFailure ==
    (sPc = "shown" /\ outcome.nativeRead = "failed") =>
        /\ ~isLoading
        /\ "loading" \notin rendered.parts
        /\ \A i \in 1..Len(errors) : \E j \in 1..Len(rendered.items) :
              rendered.items[j] = WithType(errors[i], "js")
        /\ "nativeUnavailable" \in rendered.parts

\* C16 (as claimed): "No Errors Recorded" is rendered only when loading has ended and
\* the managed read and the native read both succeeded and gave no record.
C16_EmptyStateUnambiguous ==
    "empty" \in rendered.parts =>
        /\ ~isLoading
        /\ outcome.managedRead = "ok"
        /\ outcome.nativeRead = "ok"
        /\ errors = <<>>
        /\ nativeErrors = <<>>

\* C18 (as claimed): when the last dialog shown is the success message "All error
\* logs have been cleared", the managed clear and the native clear both succeeded.
C18_PartialClearReported ==
    (alerts # <<>> /\ alerts[Len(alerts)] = SuccessAlert) =>
        /\ outcome.managedClear = "ok"
        /\ outcome.nativeClear = "ok"

\* C19 (as claimed): a store loses records through the report screen only in the
\* steps that follow the choice of "Clear All" in the confirmation dialog, "Cancel"
\* changes no store, and once a confirmed clear has ended without any failed
\* operation the managed store, native_error_logs and crash_logs are all empty.
C19_ConfirmedClearCoversStores ==
    /\ [][(Len(store') < Len(store) \/ Len(nativeErrorLogs') < Len(nativeErrorLogs) \/
           Len(crashLogs') < Len(crashLogs)) => sPc \in {"clearManaged", "clearNative"}]_vars
    /\ [][(sPc = "confirm" /\ sPc' = "shown") =>
            UNCHANGED <<store, nativeErrorLogs, crashLogs>>]_vars
    /\ []((/\ alerts # <<>>
           /\ alerts[Len(alerts)] = SuccessAlert
           /\ storageFailures = 0) =>
              (store = <<>> /\ nativeErrorLogs = <<>> /\ crashLogs = <<>>))

(* ------------------- further managed-side claims ---------------------- *)

\* C21 (as claimed): the installed global handler, the onUnhandled callback, the
\* console.error wrapper and reportError return normally for every input, a null or
\* undefined error value included: no exception leaves the step that handled a
\* fault.
C21_HandlersNeverThrow ==
    last.kind \in {"uncaught", "rejection", "rejected-logError", "console", "report"} =>
        ~last.eff.thrown

(* ------------------------ further native claims ----------------------- *)

\* C22: however the getInstance calls of several threads interleave, at most one
\* CrashHandler is constructed, every thread that has returned from getInstance
\* holds the instance INSTANCE refers to, the CrashHandler is installed as the
\* default uncaught-exception handler at most once, and the handler it captured as
\* the previous one is not a CrashHandler.
C22_NativeSingleton ==
    /\ Len(instances) <= 1
    /\ \A t \in Threads : tLocal[t].inst # 0 /\ tPc[t] \in {"use", "idle"} =>
          tLocal[t].inst = published
    /\ Cardinality({i \in 1..Len(uncaughtHandler) : uncaughtHandler[i] = "crash"}) = Len(instances)
    /\ \A i \in 1..Len(instances) : instances[i].defaultHandler # "crash"

\* Two threads found INSTANCE null at the first read; one constructed the handler, the
\* other found it at the read inside the monitor.
C22_Witness ==
    \E t, u \in Threads :
        /\ tLocal[t].path = "constructed"
        /\ tLocal[u].path = "foundLocked"
        /\ tPc[t] = "idle"
        /\ tPc[u] = "idle"
        /\ tLocal[u].inst = tLocal[t].inst

\* The list item is the crash record rec: a native item carrying its id and message
Shows(item, rec) ==
    /\ item._type = "native"
    /\ "id" \in DOMAIN item
    /\ item.id = rec.id
    /\ item.message = rec.message

\* C23 (as claimed): once the report screen has been opened and both of its reads
\* have succeeded, every record that CrashHandler.saveCrashLog persisted and that is
\* still in crash_logs is an item of the merged list.
C23_CrashRecordsReachReport ==
    (/\ sPc = "shown"
     /\ outcome.managedRead = "ok"
     /\ outcome.nativeRead = "ok"
     /\ outcome.managedClear = "none"
     /\ outcome.nativeClear = "none") =>
        \A i \in 1..Len(crashLogs) : \E j \in 1..Len(rendered.items) :
            Shows(rendered.items[j], crashLogs[i])

\* C24: native_error_logs never holds more than 20 records; a write by
\* NativeErrorModule.logNativeError or by the activity puts its record behind the
\* records held and drops those in front beyond the last 20, so that the store is the
\* 20 most recent writes, oldest first; a logNativeError call of the bridge that
\* resolves has written; getNativeErrorLogs returns the records in the stored order.
C24_NativeStoreBound ==
    /\ [](Len(nativeErrorLogs) <= MAX_NATIVE_ERROR_LOGS)
    /\ [][nativeErrorLogs' # nativeErrorLogs =>
            LET n == Len(nativeErrorLogs')
                all == nativeErrorLogs \o <<nativeErrorLogs'[n]>>
                kept == Min(Len(all), MAX_NATIVE_ERROR_LOGS)
            IN /\ n = kept
               /\ nativeErrorLogs'[n].timestamp = nativeClock
               /\ \A i \in 1..kept : nativeErrorLogs'[i] = all[Len(all) - kept + i]]_vars
    /\ [][(/\ nativeClock' # nativeClock
            /\ activities' = activities
            /\ crashes' = crashes
            /\ bridgeResult'.op = "logNativeError"
            /\ bridgeResult'.ok) =>
               nativeErrorLogs' # nativeErrorLogs]_vars
    /\ [][(bridgeResult' # bridgeResult /\ bridgeResult'.op = "getNativeErrorLogs"
            /\ bridgeResult'.ok) =>
            /\ Len(bridgeResult'.value) = Len(nativeErrorLogs)
            /\ \A i \in 1..Len(nativeErrorLogs) :
                  /\ bridgeResult'.value[i].timestamp = Millis(nativeErrorLogs[i].timestamp)
                  /\ bridgeResult'.value[i].message = nativeErrorLogs[i].message
                  /\ bridgeResult'.value[i].context = nativeErrorLogs[i].context]_vars

\* The store is full, the oldest record has been dropped, both writers have written,
\* and the reader has returned the 20 records.
C24_Witness ==
    /\ Len(nativeErrorLogs) = MAX_NATIVE_ERROR_LOGS
    /\ nativeErrorLogs[1].timestamp > 1
    /\ \E i \in 1..Len(nativeErrorLogs) : nativeErrorLogs[i].context = "managed"
    /\ \E i \in 1..Len(nativeErrorLogs) : nativeErrorLogs[i].context = "MainActivity.onCreate"
    /\ bridgeResult.op = "getNativeErrorLogs"
    /\ Len(bridgeResult.value) = MAX_NATIVE_ERROR_LOGS
    /\ bridgeResult.value[1].timestamp = Millis(nativeErrorLogs[1].timestamp)

(* ------------------- console capture and termination ------------------ *)

\* C25 (as claimed): with the handlers installed, a console.error call whose joined
\* text is not benign makes exactly one logError invocation, which carries the
\* message "Console Error: " followed by that text and reaches its store read, and
\* the original console channel then prints that text once; nothing is thrown.
C25_ConsoleErrorCapture ==
    (last.kind = "console" /\ installs >= 1 /\ ~Benign(fault.text)) =>
        /\ Len(last.eff.called) = 1
        /\ last.eff.called[1].message = <<"Console Error:">> \o fault.text
        /\ last.eff.started = last.eff.called
        /\ Cardinality({i \in 1..Len(last.eff.raw) : last.eff.raw[i] = fault.text}) = 1
        /\ ~last.eff.thrown

\* The messages under which the wrapper logs the diagnostic output of the two
\* logError functions
DiagnosticMessages ==
    {<<"Console Error:">> \o ErrorLoggedText, <<"Console Error:">> \o BoundaryCaughtText}

\* C26 (as claimed): the output that ErrorHandler.logError and ErrorBoundary.logError
\* print through console.error is never captured as a fault: no step invokes
\* logError for it, no logError promise is rejected, and no suspended logError
\* carries it.
C26_DiagnosticsNotCaptured ==
    /\ \A i \in 1..Len(last.eff.called) : last.eff.called[i].message \notin DiagnosticMessages
    /\ last.eff.rejected = 0
    /\ \A t \in tasks : t.log.message \notin DiagnosticMessages

(* ------------------------- overlapping writers ------------------------ *)

\* Faults captured while earlier insertions are still suspended, and clearErrorLogs
\* between their steps; no global handler is installed, one record is held from an
\* earlier session.
OverlapInit ==
    /\ NativeInit
    /\ ManagedInit({FALSE}, {FALSE}, MaxHeld, {0})
    /\ BoundaryInit({FALSE})
    /\ ScreenInit
    /\ ThreadInit

OverlapNext ==
    \/ reportError(MaxExtra, MaxExtra, {NetworkDown})
    \/ RenderThrows(MaxExtra, {NetworkDown})
    \/ clearErrorLogs
    \/ LogErrorRead
    \/ LogErrorWrite

SpecOverlap == OverlapInit /\ [][OverlapNext]_vars

\* The ids of the records in the managed store
StoredIds == {store[i].id : i \in 1..Len(store)}

\* C27 (as claimed): once every insertion has completed and no storage operation has
\* failed, every record whose write completed since the store was last emptied is
\* in the managed store, also when the insertions overlapped.
C27_NoLostRecord ==
    (Quiet /\ storageFailures = 0) => inserted \subseteq StoredIds

\* C28 (as claimed): the managed store holds only records written since
\* clearErrorLogs last completed: a logError that read the store before the clear
\* and writes after it brings back none of the records the clear removed.
C28_ClearNotUndone ==
    StoredIds \subseteq inserted

(* --------------------------- custom fallback -------------------------- *)

\* C29 (as claimed): every render of a Faulted boundary that has a custom fallback
\* renderer calls the renderer, not the default view, with an error and a component
\* stack that are both non-null.
C29_CustomFallbackArguments ==
    \A b \in Boundaries : \A i \in 1..Len(renders[b]) :
        (customFallback[b] /\ renders[b][i].view # "children") =>
            /\ renders[b][i].view = "custom"
            /\ ~renders[b][i].error.nul
            /\ renders[b][i].errorInfo # Null

(* ------------------------------ list keys ----------------------------- *)

\* keyExtractor: `${item._type}_${'id' in item ? item.id : item.timestamp}`
keyExtractor(item) ==
    <<item._type, IF "id" \in DOMAIN item THEN item.id ELSE item.timestamp>>

\* C30 (as claimed): whenever the report screen shows the list, the list has one
\* entry for each managed and each native record read, and the keys of its entries
\* are pairwise distinct.
C30_MergeKeepsEntriesDistinct ==
    "list" \in rendered.parts =>
        /\ Len(rendered.items) = Len(errors) + Len(nativeErrors)
        /\ \A i, j \in 1..Len(rendered.items) :
              i # j => keyExtractor(rendered.items[i]) # keyExtractor(rendered.items[j])

====
